---- MODULE Spec2Model ----
(***************************************************************************)
(* Restaurant.Kiosk peripherals agent.                                     *)
(*                                                                         *)
(* kiosk_peripherals.py runs two threads in one process: the cash reader   *)
(* (ArduinoCashReader.run) and the receipt dispatcher                      *)
(* (ReceiptPrinterClient.run), started by main() and sharing one pyserial  *)
(* connection object.  arduino_cash_reader.py is the standalone cash       *)
(* reader (read_loop) with its own parse_arduino_data.  The variable       *)
(* `variant` says which of the two programs runs.                          *)
(***************************************************************************)
EXTENDS Integers, Sequences, FiniteSets, TLC

\* ------------------------------------------------------------------ bounds
MaxSessions == 2      \* sessions in one active-sessions response
MaxBuffer == 1        \* lines waiting in the port's input buffer
MaxWire == 2          \* commands written, where the senders are taken alone

\* ------------------------------------------------------- program constants
retry_attempts == 3            \* config["retry_attempts"]
poll_interval == 5             \* config["cash_poll_interval"]
reconnect_delay_seconds == 5   \* config["reconnect_delay_seconds"]
retry_sleep == 2               \* time.sleep(2) between update attempts

Orders == {"A", "B", "C"}
NoOrder == "None"
NoUpdate == [order_number |-> NoOrder, amount_added |-> 0]

Min(a, b) == IF a <= b THEN a ELSE b

\* ------------------------------------------------------------ device lines
\* A device line is the sequence of its characters, newline included, as
\* readline() returns it.
Line_BILL5 == <<"B", "I", "L", "L", ":", "5", "\n">>
Line_COIN1 == <<"C", "O", "I", "N", ":", "1", "\r", "\n">>
Line_BILL0 == <<"B", "I", "L", "L", ":", "0", "\n">>
Line_COINneg == <<"C", "O", "I", "N", ":", "-", "5", "\n">>
Line_BILLx == <<"B", "I", "L", "L", ":", "x", "\n">>
Line_CANCEL == <<"C", "A", "N", "C", "E", "L", "\n">>
Line_READY == <<"R", "E", "A", "D", "Y", "\n">>
Line_PONG == <<"P", "O", "N", "G", "\n">>
Line_comment == <<"#", "h", "b", "\n">>
Line_empty == <<"\n">>
Line_lower == <<"b", "i", "l", "l", ":", "5", "\n">>
Line_other == <<"S", "T", "A", "T", ":", "1", "\n">>

\* every kind of line the parser tells apart
AllLines ==
    { Line_BILL5, Line_COIN1, Line_BILL0, Line_COINneg, Line_BILLx, Line_CANCEL,
      Line_READY, Line_PONG, Line_comment, Line_empty, Line_lower, Line_other }

\* the lines the device sends in the specifications of the whole loop
DeviceLines == { Line_BILL5, Line_COIN1, Line_BILL0, Line_CANCEL }

\* ---------------------------------------------------------- str operations
Whitespace == {" ", "\n", "\r", "\t"}

RECURSIVE lstrip(_)
lstrip(s) ==
    IF s # <<>> /\ Head(s) \in Whitespace THEN lstrip(Tail(s)) ELSE s

RECURSIVE rstrip(_)
rstrip(s) ==
    IF s # <<>> /\ s[Len(s)] \in Whitespace
    THEN rstrip(SubSeq(s, 1, Len(s) - 1))
    ELSE s

\* str.strip()
strip(s) == rstrip(lstrip(s))

\* str.startswith(prefix)
startswith(s, prefix) ==
    Len(s) >= Len(prefix) /\ SubSeq(s, 1, Len(prefix)) = prefix

\* s.split(":", 1)[1]: what follows the first colon (the callers have
\* checked that the string starts with BILL: or COIN:, so there is one)
after_colon(s) ==
    LET i == CHOOSE k \in 1..Len(s) :
                 s[k] = ":" /\ \A j \in 1..(k - 1) : s[j] # ":"
    IN  SubSeq(s, i + 1, Len(s))

Digits == <<"0", "1", "2", "3", "4", "5", "6", "7", "8", "9">>
IsDigit(c) == \E d \in 1..10 : Digits[d] = c
DigitVal(c) == (CHOOSE d \in 1..10 : Digits[d] = c) - 1

RECURSIVE DigitsVal(_)
DigitsVal(s) ==
    IF s = <<>> THEN 0
    ELSE 10 * DigitsVal(SubSeq(s, 1, Len(s) - 1)) + DigitVal(s[Len(s)])

\* float(text) on the payloads the model feeds it: an optional sign followed
\* by decimal digits is that whole number; anything else (no digit, a letter)
\* raises ValueError.
float(text) ==
    LET t == strip(text)
        signed == t # <<>> /\ Head(t) \in {"-", "+"}
        body == IF signed THEN Tail(t) ELSE t
        good == body # <<>> /\ \A k \in 1..Len(body) : IsDigit(body[k])
    IN  IF good
        THEN [ok |-> TRUE,
              val |-> IF signed /\ Head(t) = "-" THEN 0 - DigitsVal(body)
                      ELSE DigitsVal(body)]
        ELSE [ok |-> FALSE, val |-> 0]

BILL_ == <<"B", "I", "L", "L", ":">>
COIN_ == <<"C", "O", "I", "N", ":">>
CANCEL_ == <<"C", "A", "N", "C", "E", "L">>
READY_ == <<"R", "E", "A", "D", "Y">>
PONG_ == <<"P", "O", "N", "G">>

\* What one call of parse_arduino_data does: the CashUpdate it returns
\* (NoUpdate for None), the order a cancel-payment call is issued for
\* (NoOrder for no call) and the value it leaves in self.current_order.
ParseResult(upd, cancel, cur) ==
    [cash_update |-> upd, cancel_for |-> cancel, current_order |-> cur]

\* parse_arduino_data without its COIN: branch: amount stays 0.0
parse_arduino_data_no_coin(raw, cur) ==
    LET data == strip(raw)
    IN  IF data = <<>> THEN ParseResult(NoUpdate, NoOrder, cur)
        ELSE IF startswith(data, <<"#">>) THEN ParseResult(NoUpdate, NoOrder, cur)
        ELSE IF data \in {READY_, PONG_} THEN ParseResult(NoUpdate, NoOrder, cur)
        ELSE IF startswith(data, BILL_)
        THEN IF cur = NoOrder THEN ParseResult(NoUpdate, NoOrder, cur)
             ELSE LET amount == float(after_colon(data))
                  IN  IF amount.ok /\ amount.val > 0
                      THEN ParseResult([order_number |-> cur,
                                        amount_added |-> amount.val],
                                       NoOrder, cur)
                      ELSE ParseResult(NoUpdate, NoOrder, cur)
        ELSE ParseResult(NoUpdate, NoOrder, cur)

\* parse_arduino_data without the test of self.current_order
parse_arduino_data_no_order_check(raw, cur) ==
    LET data == strip(raw)
    IN  IF data = <<>> THEN ParseResult(NoUpdate, NoOrder, cur)
        ELSE IF startswith(data, <<"#">>) THEN ParseResult(NoUpdate, NoOrder, cur)
        ELSE IF data \in {READY_, PONG_} THEN ParseResult(NoUpdate, NoOrder, cur)
        ELSE IF startswith(data, BILL_) \/ startswith(data, COIN_)
        THEN LET amount == float(after_colon(data))
             IN  IF amount.ok /\ amount.val > 0
                 THEN ParseResult([order_number |-> cur,
                                   amount_added |-> amount.val],
                                  NoOrder, cur)
                 ELSE ParseResult(NoUpdate, NoOrder, cur)
        ELSE ParseResult(NoUpdate, NoOrder, cur)

\* parse_arduino_data without the test `amount > 0`
parse_arduino_data_no_amount_check(raw, cur) ==
    LET data == strip(raw)
    IN  IF data = <<>> THEN ParseResult(NoUpdate, NoOrder, cur)
        ELSE IF startswith(data, <<"#">>) THEN ParseResult(NoUpdate, NoOrder, cur)
        ELSE IF data \in {READY_, PONG_} THEN ParseResult(NoUpdate, NoOrder, cur)
        ELSE IF startswith(data, BILL_) \/ startswith(data, COIN_)
        THEN IF cur = NoOrder THEN ParseResult(NoUpdate, NoOrder, cur)
             ELSE LET amount == float(after_colon(data))
                  IN  IF amount.ok
                      THEN ParseResult([order_number |-> cur,
                                        amount_added |-> amount.val],
                                       NoOrder, cur)
                      ELSE ParseResult(NoUpdate, NoOrder, cur)
        ELSE ParseResult(NoUpdate, NoOrder, cur)

\* kiosk_peripherals.py, ArduinoCashReader.parse_arduino_data
parse_arduino_data(raw, cur) ==
    LET data == strip(raw)
    IN  IF data = <<>> THEN ParseResult(NoUpdate, NoOrder, cur)
        ELSE IF startswith(data, <<"#">>) THEN ParseResult(NoUpdate, NoOrder, cur)
        ELSE IF data \in {READY_, PONG_} THEN ParseResult(NoUpdate, NoOrder, cur)
        ELSE IF startswith(data, BILL_) \/ startswith(data, COIN_)
        THEN IF cur = NoOrder THEN ParseResult(NoUpdate, NoOrder, cur)
             ELSE LET amount == float(after_colon(data))
                  IN  IF amount.ok /\ amount.val > 0
                      THEN ParseResult([order_number |-> cur,
                                        amount_added |-> amount.val],
                                       NoOrder, cur)
                      ELSE ParseResult(NoUpdate, NoOrder, cur)
        ELSE ParseResult(NoUpdate, NoOrder, cur)

\* arduino_cash_reader.py, ArduinoCashReader.parse_arduino_data
parse_arduino_data_standalone(raw, cur) ==
    LET data == strip(raw)
    IN  IF data = <<>> THEN ParseResult(NoUpdate, NoOrder, cur)
        ELSE IF data = CANCEL_
        THEN IF cur # NoOrder THEN ParseResult(NoUpdate, cur, NoOrder)
             ELSE ParseResult(NoUpdate, NoOrder, cur)
        ELSE IF cur = NoOrder THEN ParseResult(NoUpdate, NoOrder, cur)
        ELSE IF startswith(data, BILL_) \/ startswith(data, COIN_)
        THEN LET amount == float(after_colon(data))
             IN  IF amount.ok /\ amount.val > 0
                 THEN ParseResult([order_number |-> cur,
                                   amount_added |-> amount.val],
                                  NoOrder, cur)
                 ELSE ParseResult(NoUpdate, NoOrder, cur)
        ELSE ParseResult(NoUpdate, NoOrder, cur)

\* ------------------------------------------------ active-sessions response
\* One element of the response's "sessions" list: its orderNumber and
\* whether the display fields (totalRequired, amountInserted) are present
\* ("full") or not ("partial").  The remote sends every order in full, and
\* order C also without the display fields.
SessionEntries ==
    { [orderNumber |-> o, has |-> "full"] : o \in Orders }
    \cup { [orderNumber |-> "C", has |-> "partial"] }

SessionLists == UNION { [1..n -> SessionEntries] : n \in 0..MaxSessions }

\* What the GET of poll_active_sessions can come back with.  "ok" is status
\* 200, success true and a list of sessions that each carry an orderNumber;
\* the other kinds are the failures: no connection or timeout, another
\* status code, success false, a body that is not the expected JSON (not
\* JSON at all, no list under "sessions", a session without orderNumber).
PollFailures == {"conn_error", "non200", "success_false", "bad_body"}

NoResponse == [kind |-> "none", sessions |-> <<>>]

PollResponses ==
    { [kind |-> k, sessions |-> <<>>] : k \in PollFailures }
    \cup { [kind |-> "ok", sessions |-> l] : l \in SessionLists }

HasKey(d, o) == \E i \in 1..Len(d) : d[i].orderNumber = o

\* the response's list taken as it is, a repeated orderNumber kept twice
dict_of_keep_duplicates(l) == l

\* the response's list without its last session
dict_of_drop_last(l) == IF l = <<>> THEN <<>> ELSE SubSeq(l, 1, Len(l) - 1)

\* {s['orderNumber']: s for s in sessions}: a dict keeps a key at the place
\* of its first insertion and the value of its last one.
RECURSIVE dict_of(_)
dict_of(l) ==
    IF l = <<>> THEN <<>>
    ELSE LET init == dict_of(SubSeq(l, 1, Len(l) - 1))
             s == l[Len(l)]
         IN  IF HasKey(init, s.orderNumber)
             THEN [i \in 1..Len(init) |->
                      IF init[i].orderNumber = s.orderNumber THEN s ELSE init[i]]
             ELSE Append(init, s)

Note(kind, o) == [kind |-> kind, order |-> o]

\* lines 156-164: the "new session" notifications, in the order of the new
\* dict; formatting session_data['totalRequired'] raises KeyError on a new
\* session that lacks it, which ends the loop there.
RECURSIVE new_session_notes(_, _)
new_session_notes(new_sessions, active) ==
    IF new_sessions = <<>> THEN [notes |-> <<>>, raised |-> FALSE]
    ELSE LET s == Head(new_sessions)
         IN  IF HasKey(active, s.orderNumber)
             THEN new_session_notes(Tail(new_sessions), active)
             ELSE IF s.has # "full" THEN [notes |-> <<>>, raised |-> TRUE]
             ELSE LET rest == new_session_notes(Tail(new_sessions), active)
                  IN  [notes |-> <<Note("new", s.orderNumber)>> \o rest.notes,
                       raised |-> rest.raised]

\* lines 167-171: the "completed/cancelled" notifications, in the order of
\* the old dict
RECURSIVE gone_session_notes(_, _)
gone_session_notes(active, new_sessions) ==
    IF active = <<>> THEN <<>>
    ELSE LET o == Head(active).orderNumber
             rest == gone_session_notes(Tail(active), new_sessions)
         IN  IF HasKey(new_sessions, o) THEN rest
             ELSE <<Note("gone", o)>> \o rest

\* the pointer cleared at every poll, to be selected anew
pointer_after_diff_cleared(cur, new_sessions) == NoOrder

\* the pointer kept whatever the response holds
pointer_after_diff_kept(cur, new_sessions) == cur

\* lines 170-171: the pointer after the second loop
pointer_after_diff(cur, new_sessions) ==
    IF cur # NoOrder /\ ~HasKey(new_sessions, cur) THEN NoOrder ELSE cur

\* order A selected, in the cache or not
auto_select_fixed(cur, sessions) == IF cur = NoOrder THEN "A" ELSE cur

\* the last key of the new dict selected
auto_select_last(cur, sessions) ==
    IF cur = NoOrder /\ sessions # <<>>
    THEN sessions[Len(sessions)].orderNumber ELSE cur

\* lines 176-177: auto-select the first key of the new dict
auto_select(cur, sessions) ==
    IF cur = NoOrder /\ sessions # <<>> THEN sessions[1].orderNumber ELSE cur

PollResult(ok, sessions, cur, notes) ==
    [ok |-> ok, active_sessions |-> sessions, current_order |-> cur, notes |-> notes]

\* poll_active_sessions that empties the cache when the poll fails
poll_clears_on_failure(resp, active, cur) ==
    IF resp.kind # "ok" THEN PollResult(FALSE, <<>>, NoOrder, <<>>)
    ELSE LET new_sessions == dict_of(resp.sessions)
             appeared == new_session_notes(new_sessions, active)
         IN  IF appeared.raised
             THEN PollResult(FALSE, active, cur, appeared.notes)
             ELSE PollResult(TRUE, new_sessions,
                             auto_select(pointer_after_diff(cur, new_sessions),
                                         new_sessions),
                             appeared.notes
                                 \o gone_session_notes(active, new_sessions))

\* poll_active_sessions without lines 170-171: the pointer is not looked at
\* when a session has gone
poll_keeps_pointer(resp, active, cur) ==
    IF resp.kind # "ok" THEN PollResult(FALSE, active, cur, <<>>)
    ELSE LET new_sessions == dict_of(resp.sessions)
             appeared == new_session_notes(new_sessions, active)
         IN  IF appeared.raised
             THEN PollResult(FALSE, active, cur, appeared.notes)
             ELSE PollResult(TRUE, new_sessions, auto_select(cur, new_sessions),
                             appeared.notes
                                 \o gone_session_notes(active, new_sessions))

\* ArduinoCashReader.poll_active_sessions (the same in both programs)
poll_active_sessions(resp, active, cur) ==
    IF resp.kind # "ok" THEN PollResult(FALSE, active, cur, <<>>)
    ELSE LET new_sessions == dict_of(resp.sessions)
             appeared == new_session_notes(new_sessions, active)
         IN  IF appeared.raised
             THEN PollResult(FALSE, active, cur, appeared.notes)
             ELSE PollResult(TRUE, new_sessions,
                             auto_select(pointer_after_diff(cur, new_sessions),
                                         new_sessions),
                             appeared.notes
                                 \o gone_session_notes(active, new_sessions))

\* run lines 385-389 / read_loop lines 338-344: the status display formats
\* amountInserted and totalRequired of the current session, and raises
\* KeyError when the cached session lacks them.
status_display_raises(active, cur) ==
    /\ active # <<>>
    /\ cur # NoOrder
    /\ \E i \in 1..Len(active) :
           active[i].orderNumber = cur /\ active[i].has # "full"

\* ------------------------------------------------------ the update request
\* How one POST /api/cash-payment/update can end:
\*   ok        200, isComplete false
\*   complete  200, isComplete true
\*   rejected  the remote did not apply it: no connection, a status other
\*             than 200
\*   lost      the remote applied it and the client did not get the answer:
\*             the response timed out or its body did not parse
UpdateOutcomes == {"ok", "complete", "rejected", "lost"}

\* the remote added the amount to the session
remote_applied(outcome) == outcome \in {"ok", "complete", "lost"}

\* `return True` only under `if data.get('isComplete')`
update_succeeded_only_complete(outcome) == outcome = "complete"

\* attempt < max_retries
retry_again_off_by_one(att) == att < retry_attempts

\* line 261 and the json() of line 262 both pass
update_succeeded(outcome) == outcome \in {"ok", "complete"}

\* the pointer left as it is by a response with isComplete
order_after_update_kept(outcome, cur) == cur

\* a completed payment moves the pointer on to another order
order_after_update_moves_on(outcome, cur) ==
    IF outcome = "complete" THEN (IF cur = "A" THEN "B" ELSE "A") ELSE cur

\* lines 266-268: a response with isComplete clears the pointer
order_after_update(outcome, cur) == IF outcome = "complete" THEN NoOrder ELSE cur

\* the poll run in every iteration of the loop
poll_due_always(e) == TRUE

\* the poll never run
poll_due_never(e) == FALSE

\* run line 380: current_time - self.last_poll_time >= self.poll_interval
poll_due(e) == e >= poll_interval

\* lines 273 and 280: attempt < max_retries - 1
retry_again(att) == att < retry_attempts - 1

\* ------------------------------------------------------------ the receipt
\* A print job's receipt, as far as the dispatcher looks at it: None or a
\* dict; which of the fields that add a line are present; the number of
\* items; whether an item's lineTotal is something '{:.2f}' cannot format
\* (badItem); whether an item's quantity overflows its 3-character column
\* (wide: a 20-digit quantity).
ReceiptRec(isDict, extras, items, badItem, wide) ==
    [isDict |-> isDict, address |-> extras, phone |-> extras, customer |-> extras,
     tax |-> extras, paid |-> extras, change |-> extras, items |-> items,
     badItem |-> badItem, wide |-> wide]

NullReceipt == ReceiptRec(FALSE, FALSE, 0, FALSE, FALSE)

RECURSIVE Repeat(_, _)
Repeat(x, n) == IF n = 0 THEN <<>> ELSE <<x>> \o Repeat(x, n - 1)

If(c, x) == IF c THEN <<x>> ELSE <<>>

\* _generate_receipt_lines, as the lengths of the lines it returns, for a
\* receipt whose orderNumber, orderDate and paymentMethod are absent.
\* _center_text(text, 28) is 28 characters long; an item line is
\* 16 + 1 + max(3, len(str(qty))) + 8 characters.
receipt_line_lengths(r) ==
    \* header, lines 555-561
    <<28>> \o If(r.address, 28) \o If(r.phone, 28) \o <<0, 0>>
    \* order details, lines 567-575
    \o <<10, 6>> \o If(r.customer, 26) \o <<0, 0>>
    \* item table, lines 578-606
    \o <<27, 0>> \o Repeat(IF r.wide THEN 45 ELSE 28, r.items) \o <<0, 0>>
    \* totals, lines 613-621
    \o <<27>> \o If(r.tax, 27) \o <<0, 27, 0, 0>>
    \* payment, lines 625-637
    \o <<8, 0>> \o If(r.paid, 27) \o If(r.paid /\ r.change, 27) \o <<0, 0>>
    \* footer, lines 640-646
    \o <<28, 28, 0, 28, 0, 0, 0>>

\* _generate_receipt_lines raises on an item it cannot format (line 597)
render_raises(r) == r.items > 0 /\ r.badItem

\* _send_arduino_command lines 534-537: the length of the command as written
SafeLength == 50
truncated(len) == IF len > SafeLength THEN SafeLength ELSE len

\* len("PRINT:LINE:"), len("PRINT:START"), len("PRINT:END")
PrefixLength == 11
StartLength == 11
EndLength == 9

\* ------------------------------------------------------------------- state
VARIABLES
    variant,            \* "unified" (kiosk_peripherals.py) or "standalone"
    enable_printer,     \* config["enable_printer"]
    mainPc,             \* main(): where the main thread is
    crPc,               \* cash reader: where its loop is
    running,            \* cash_reader.running
    current_order,      \* self.current_order
    active_sessions,    \* self.active_sessions, in the dict's key order
    clearedBy,          \* what last set current_order to None since it was last
                        \* selected: "complete", "gone", "cancel", or "none"
    clearedOrder,       \* the order current_order held when it was last set to
                        \* None, "None" once an order is selected again
    elapsed,            \* time.time() - self.last_poll_time, capped at poll_interval
    serial_connection,  \* self.serial_connection: "None" or "Serial", a port object
    is_open,            \* serial_connection.is_open (every older object is closed)
    inBuf,              \* lines the device sent that wait in the port's input buffer
    line,               \* run(): the line returned by readline()
    cash_update,        \* run(): the CashUpdate being forwarded
    attempt,            \* send_cash_update: the loop index
    orderAtRead,        \* current_order when `line` was parsed
    reqs,               \* update requests sent for `line`, with how each ended
    cancels,            \* cancel-payment calls issued for `line`
    sendResult,         \* what send_cash_update returned for `line`
    notes,              \* notifications of the last cash-reader step
    pollStatus,         \* "ok"/"failed" when the last cash-reader step polled
    response,           \* the response that poll got
    caught,             \* the exception the last cash-reader step caught in the
                        \* loop's handlers: "SerialException", "Exception", "none"
    prPc,               \* dispatcher: where its loop is
    prRunning,          \* printer_client.running
    arduino_connection, \* printer_client.arduino_connection: "None", or the object
                        \* it was given: "current" while cash_reader.serial_connection
                        \* is that object, "stale" once it is a newer one
    fetched,            \* run(): how check_for_print_jobs ended in this
                        \* iteration, "none" before it is called
    job,                \* run(): the job fetched
    idx,                \* print_receipt: the line being sent
    success,            \* run(): what print_receipt returned
    reports,            \* completed/failed reports sent for `job`
    wire                \* commands written to the port for `job`: its kind and
                        \* length where the loops run, the whole text where
                        \* the senders are taken alone
    ,rendered           \* where the rendering is taken alone: the payloads
                        \* rendered so far, each with the lines it gave

cfgVars == <<variant, enable_printer>>
sessVars == <<current_order, active_sessions, clearedBy, clearedOrder>>
connVars == <<serial_connection, is_open>>
evVars == <<line, cash_update, attempt, orderAtRead, reqs, cancels, sendResult>>
pollObs == <<notes, pollStatus, response, caught>>
cashVars == <<crPc, running, sessVars, elapsed, connVars, inBuf, evVars, pollObs>>
prVars ==
    <<prPc, prRunning, arduino_connection, fetched, job, idx, success, reports,
      wire, rendered>>

vars == <<cfgVars, mainPc, cashVars, prVars>>

JobIds == {"J1", "J2"}
NoJob == [jobId |-> "None", receipt |-> NullReceipt]

connected == serial_connection # "None" /\ is_open

\* the dispatcher's test `self.arduino_connection and
\* self.arduino_connection.is_open`, on the object it holds
printer_connected == arduino_connection = "current" /\ is_open

\* time.sleep(d): at least d seconds pass
slept(d) == Min(elapsed + d, poll_interval)

parse_line(raw, cur) ==
    IF variant = "unified" THEN parse_arduino_data(raw, cur)
    ELSE parse_arduino_data_standalone(raw, cur)

InitState ==
    /\ mainPc = "init"
    /\ crPc = "notstarted"
    /\ running = FALSE
    /\ current_order = NoOrder
    /\ active_sessions = <<>>
    /\ clearedBy = "none"
    /\ clearedOrder = NoOrder
    /\ elapsed = poll_interval
    /\ serial_connection = "None"
    /\ is_open = FALSE
    /\ inBuf = <<>>
    /\ line = <<>>
    /\ cash_update = NoUpdate
    /\ attempt = 0
    /\ orderAtRead = NoOrder
    /\ reqs = <<>>
    /\ cancels = <<>>
    /\ sendResult = "None"
    /\ notes = <<>>
    /\ pollStatus = "none"
    /\ response = NoResponse
    /\ caught = "none"
    /\ prPc = "notstarted"
    /\ prRunning = FALSE
    /\ arduino_connection = "None"
    /\ job = NoJob
    /\ idx = 0
    /\ success = FALSE
    /\ reports = <<>>
    /\ wire = <<>>
    /\ fetched = "none"
    /\ rendered = <<>>

\* ------------------------------------------------------------ cash reader
\* What every cash-reader step that is not a poll leaves in the observers.
NoPollSeen == notes' = <<>> /\ pollStatus' = "none" /\ response' = NoResponse

NoPoll == NoPollSeen /\ caught' = "none"

\* disconnect_arduino(): close the port if it is open; what waited in its
\* input buffer is gone
Disconnect ==
    /\ is_open' = FALSE
    /\ inBuf' = <<>>
    /\ UNCHANGED serial_connection

\* run line 374: self.running = True (read_loop has no such flag)
CashStart ==
    /\ crPc = "start"
    /\ running' = TRUE
    /\ crPc' = "top"
    /\ NoPoll
    /\ UNCHANGED <<cfgVars, mainPc, sessVars, elapsed, connVars, inBuf, evVars,
                   prVars>>

\* run line 376 with self.running false, then line 418
CashExit ==
    /\ crPc = "top"
    /\ ~running
    /\ Disconnect
    /\ crPc' = "stopped"
    /\ NoPoll
    /\ UNCHANGED <<cfgVars, mainPc, running, sessVars, elapsed, evVars, prVars>>

\* run lines 379-389: the poll is due
CashPoll(Responses) ==
    /\ crPc = "top"
    /\ running
    /\ poll_due(elapsed)
    /\ \E resp \in Responses :
          \E r \in {poll_active_sessions(resp, active_sessions, current_order)} :
          LET raised == status_display_raises(r.active_sessions, r.current_order)
          IN  /\ active_sessions' = r.active_sessions
              /\ current_order' = r.current_order
              /\ clearedBy' =
                    IF r.current_order # NoOrder THEN "none"
                    ELSE IF current_order # NoOrder THEN "gone"
                    ELSE clearedBy
              /\ clearedOrder' =
                    IF r.current_order # NoOrder THEN NoOrder
                    ELSE IF current_order # NoOrder THEN current_order
                    ELSE clearedOrder
              /\ notes' = r.notes
              /\ response' = resp
              /\ pollStatus' = IF r.ok THEN "ok" ELSE "failed"
              \* line 382, and the time.sleep(1) of the handler of line 414
              /\ elapsed' = IF raised THEN 1 ELSE 0
              /\ crPc' = IF raised THEN "top" ELSE "conn"
              /\ caught' = IF raised THEN "Exception" ELSE "none"
    /\ UNCHANGED <<cfgVars, mainPc, running, connVars, inBuf, evVars, prVars>>

\* run line 380 with the poll not due
CashNoPoll ==
    /\ crPc = "top"
    /\ running
    /\ ~poll_due(elapsed)
    /\ crPc' = "conn"
    /\ NoPoll
    /\ UNCHANGED <<cfgVars, mainPc, running, sessVars, elapsed, connVars, inBuf,
                   evVars, prVars>>

\* run line 392 with the port open
CashConnected ==
    /\ crPc = "conn"
    /\ connected
    /\ crPc' = "wait"
    /\ NoPoll
    /\ UNCHANGED <<cfgVars, mainPc, running, sessVars, elapsed, connVars, inBuf,
                   evVars, prVars>>

\* run lines 392-393, connect_arduino lines 199-203 succeed: a new Serial
\* object, open, is assigned to self.serial_connection
CashConnectOk ==
    /\ crPc = "conn"
    /\ ~connected
    /\ serial_connection' = "Serial"
    /\ is_open' = TRUE
    /\ arduino_connection' =
           IF arduino_connection = "current" THEN "stale" ELSE arduino_connection
    /\ inBuf' = <<>>
    /\ crPc' = "settle"
    /\ NoPoll
    /\ UNCHANGED <<cfgVars, mainPc, running, sessVars, elapsed, evVars, prPc,
                   prRunning, job, idx, success, reports, wire, fetched,
                   rendered>>

\* connect_arduino line 204: time.sleep(2) is over, the device has reset
CashSettled ==
    /\ crPc = "settle"
    /\ elapsed' = slept(2)
    /\ crPc' = "wait"
    /\ NoPoll
    /\ UNCHANGED <<cfgVars, mainPc, running, sessVars, connVars, inBuf, evVars,
                   prVars>>

\* run lines 393-395, connect_arduino fails: self.serial_connection keeps
\* what it held
CashConnectFail ==
    /\ crPc = "conn"
    /\ ~connected
    /\ elapsed' = slept(reconnect_delay_seconds)
    /\ crPc' = "top"
    /\ NoPoll
    /\ UNCHANGED <<cfgVars, mainPc, running, sessVars, connVars, inBuf, evVars,
                   prVars>>

\* run line 398: in_waiting, then line 407 when nothing waits
CashInWaiting ==
    /\ crPc = "wait"
    /\ crPc' = IF inBuf # <<>> THEN "readline" ELSE "top"
    /\ NoPoll
    /\ UNCHANGED <<cfgVars, mainPc, running, sessVars, elapsed, connVars, inBuf,
                   evVars, prVars>>

\* the SerialException handler without its disconnect_arduino()
CashSerialFault_stays_open ==
    /\ crPc \in {"wait", "readline"}
    /\ elapsed' = slept(reconnect_delay_seconds)
    /\ crPc' = "top"
    /\ NoPollSeen
    /\ caught' = "SerialException"
    /\ UNCHANGED <<cfgVars, mainPc, running, sessVars, connVars, inBuf, evVars,
                   prVars>>

\* a SerialException that is not caught inside the loop: the thread ends
CashSerialFault_fatal ==
    /\ crPc \in {"wait", "readline"}
    /\ Disconnect
    /\ crPc' = "stopped"
    /\ NoPollSeen
    /\ caught' = "SerialException"
    /\ UNCHANGED <<cfgVars, mainPc, running, sessVars, elapsed, evVars, prVars>>

\* run lines 409-412: in_waiting or readline raises SerialException
CashSerialFault ==
    /\ crPc \in {"wait", "readline"}
    /\ Disconnect
    /\ elapsed' = slept(reconnect_delay_seconds)
    /\ crPc' = "top"
    /\ NoPollSeen
    /\ caught' = "SerialException"
    /\ UNCHANGED <<cfgVars, mainPc, running, sessVars, evVars, prVars>>

\* run lines 399-404: readline() returns the first waiting line, or nothing
\* after its 1 s timeout when the buffer was emptied meanwhile; the line is
\* parsed, and a CashUpdate goes on to send_cash_update
CashReadLine ==
    /\ crPc = "readline"
    /\ LET got == inBuf # <<>>
           raw == IF got THEN Head(inBuf) ELSE <<>>
           p == parse_line(raw, current_order)
       IN  /\ line' = raw
           /\ inBuf' = IF got THEN Tail(inBuf) ELSE inBuf
           /\ elapsed' = IF got THEN elapsed ELSE slept(1)
           /\ orderAtRead' = current_order
           /\ cash_update' = p.cash_update
           /\ current_order' = p.current_order
           /\ clearedBy' = IF p.cancel_for # NoOrder THEN "cancel" ELSE clearedBy
           /\ clearedOrder' =
                  IF p.cancel_for # NoOrder THEN p.cancel_for ELSE clearedOrder
           /\ cancels' = IF p.cancel_for # NoOrder THEN <<p.cancel_for>> ELSE <<>>
           /\ crPc' = IF p.cash_update # NoUpdate THEN "send" ELSE "sleep"
    /\ reqs' = <<>>
    /\ attempt' = 0
    /\ sendResult' = "None"
    /\ NoPoll
    /\ UNCHANGED <<cfgVars, mainPc, running, active_sessions, connVars, prVars>>

\* send_cash_update, one pass of its loop: the POST and what follows it
CashSend(Outcomes) ==
    /\ crPc = "send"
    /\ \E outcome \in Outcomes :
          /\ reqs' = Append(reqs, [orderNumber |-> cash_update.order_number,
                                   amountAdded |-> cash_update.amount_added,
                                   outcome |-> outcome])
          /\ IF update_succeeded(outcome)
             THEN /\ current_order' = order_after_update(outcome, current_order)
                  /\ clearedBy' = IF outcome = "complete" THEN "complete"
                                                           ELSE clearedBy
                  /\ clearedOrder' = IF outcome = "complete" THEN current_order
                                                              ELSE clearedOrder
                  /\ crPc' = "sleep"
                  /\ sendResult' = "True"
                  /\ UNCHANGED <<attempt, elapsed>>
             ELSE IF retry_again(attempt)
             THEN /\ attempt' = attempt + 1
                  /\ elapsed' = slept(retry_sleep)
                  /\ UNCHANGED <<crPc, current_order, clearedBy, clearedOrder,
                                 sendResult>>
             ELSE /\ crPc' = "sleep"
                  /\ sendResult' = "False"
                  /\ UNCHANGED <<attempt, elapsed, current_order, clearedBy,
                                 clearedOrder>>
    /\ NoPoll
    /\ UNCHANGED <<cfgVars, mainPc, running, active_sessions, connVars, inBuf,
                   line, cash_update, orderAtRead, cancels, prVars>>

\* run line 407, the end of an iteration that read a line: the locals of
\* the iteration are dead
CashSleep ==
    /\ crPc = "sleep"
    /\ crPc' = "top"
    /\ line' = <<>>
    /\ cash_update' = NoUpdate
    /\ attempt' = 0
    /\ orderAtRead' = NoOrder
    /\ reqs' = <<>>
    /\ cancels' = <<>>
    /\ sendResult' = "None"
    /\ NoPoll
    /\ UNCHANGED <<cfgVars, mainPc, running, sessVars, elapsed, connVars, inBuf,
                   prVars>>

\* ------------------------------------------------------------- environment
\* The device sends a line.
DeviceEmit(Lines) ==
    /\ connected
    /\ Len(inBuf) < MaxBuffer
    /\ \E l \in Lines : inBuf' = Append(inBuf, l)
    /\ UNCHANGED <<cfgVars, mainPc, crPc, running, sessVars, elapsed, connVars,
                   evVars, pollObs, prVars>>

\* A second passes.  The clock is read at line 379 only, so the time that
\* passes anywhere in an iteration is counted when the loop is back there.
Tick ==
    /\ crPc = "top"
    /\ elapsed < poll_interval
    /\ elapsed' = elapsed + 1
    /\ UNCHANGED <<cfgVars, mainPc, crPc, running, sessVars, connVars, inBuf,
                   evVars, pollObs, prVars>>

\* -------------------------------------------------------------- dispatcher
Written(cmd, len) == [cmd |-> cmd, len |-> truncated(len)]

\* _send_arduino_command: the command is written when the port is open, and
\* silently skipped when it is not
send_arduino_command(cmd, len) ==
    IF printer_connected THEN Append(wire, Written(cmd, len)) ELSE wire

\* run line 692: self.running = True
PrStart ==
    /\ prPc = "start"
    /\ prRunning' = TRUE
    /\ prPc' = "top"
    /\ UNCHANGED <<cfgVars, mainPc, cashVars, arduino_connection, job, idx,
                   success, reports, wire, fetched,
                   rendered>>

\* run line 696 with self.running false
PrExit ==
    /\ prPc = "top"
    /\ ~prRunning
    /\ prPc' = "stopped"
    /\ UNCHANGED <<cfgVars, mainPc, cashVars, prRunning, arduino_connection, job,
                   idx, success, reports, wire, fetched,
                   rendered>>

\* run lines 699-701: no open connection, sleep and test again
PrWait ==
    /\ prPc = "top"
    /\ prRunning
    /\ ~printer_connected
    /\ UNCHANGED vars

\* run line 699 finds the connection open: the loop goes on to the fetch
PrConnectionTest ==
    /\ prPc = "top"
    /\ prRunning
    /\ printer_connected
    /\ prPc' = "fetch"
    /\ UNCHANGED <<cfgVars, mainPc, cashVars, prRunning, arduino_connection,
                   fetched, job, idx, success, reports, wire, rendered>>

\* check_for_print_jobs lines 448-464, how a fetch without a job ends:
\*   204        status 204
\*   no_job     status 200, hasPrintJob false or absent
\*   status     any other status (a warning is logged)
\*   transport  requests raised a RequestException (caught at line 461)
\*   bad_body   status 200 with a body that is not a JSON object: json() or
\*              data.get raises past line 461 to the handler of run line 723
FetchMisses == {"204", "no_job", "status", "transport", "bad_body"}

\* a fetch without a job that goes on to the report, as for a job that failed
PrFetchNone_reports_failed ==
    /\ prPc = "fetch"
    /\ \E kind \in FetchMisses : fetched' = kind
    /\ prPc' = "report"
    /\ UNCHANGED <<cfgVars, mainPc, cashVars, prRunning, arduino_connection, job,
                   idx, success, reports, wire, rendered>>

\* run lines 704-706: the fetch brings no job, job_data is None (or the
\* handler of line 723 is entered), and the loop goes to its sleep
PrFetchNone ==
    /\ prPc = "fetch"
    /\ \E kind \in FetchMisses : fetched' = kind
    /\ prPc' = "sleep"
    /\ UNCHANGED <<cfgVars, mainPc, cashVars, prRunning, arduino_connection, job,
                   idx, success, reports, wire, rendered>>

\* a job fetched while the lines of the one before are being sent
PrFetchJob_while_sending(Receipts) ==
    /\ prPc \in {"fetch", "line"}
    /\ \E j \in JobIds, r \in Receipts : job' = [jobId |-> j, receipt |-> r]
    /\ prPc' = "print"
    /\ fetched' = "job"
    /\ reports' = <<>>
    /\ wire' = <<>>
    /\ UNCHANGED <<cfgVars, mainPc, cashVars, prRunning, arduino_connection, idx,
                   success, rendered>>

\* run lines 704-710: the fetch brings a job
PrFetchJob(Receipts) ==
    /\ prPc = "fetch"
    /\ \E j \in JobIds, r \in Receipts : job' = [jobId |-> j, receipt |-> r]
    /\ prPc' = "print"
    /\ fetched' = "job"
    /\ reports' = <<>>
    /\ wire' = <<>>
    /\ UNCHANGED <<cfgVars, mainPc, cashVars, prRunning, arduino_connection, idx,
                   success, rendered>>

\* print_receipt lines 469-478: receipt_data.get on None raises; no open
\* connection returns False; otherwise both buffers are reset
PrPrintBegin ==
    /\ prPc = "print"
    /\ IF job.receipt.isDict /\ printer_connected
       THEN /\ inBuf' = <<>>
            /\ prPc' = "start_cmd"
            /\ UNCHANGED success
       ELSE /\ success' = FALSE
            /\ prPc' = "report"
            /\ UNCHANGED inBuf
    /\ UNCHANGED <<cfgVars, mainPc, crPc, running, sessVars, elapsed, connVars,
                   evVars, pollObs, prRunning, arduino_connection, job,
                   idx, reports, wire, fetched,
                   rendered>>

\* print_receipt lines 482-483
PrSendStart ==
    /\ prPc = "start_cmd"
    /\ wire' = send_arduino_command("START", StartLength)
    /\ prPc' = "render"
    /\ UNCHANGED <<cfgVars, mainPc, cashVars, prRunning, arduino_connection, job,
                   idx, success, reports, fetched,
                   rendered>>

\* a rendering error that print_receipt does not catch: it reaches the
\* handler of run line 723, which sleeps and goes on
PrRender_uncaught ==
    /\ prPc = "render"
    /\ IF render_raises(job.receipt)
       THEN success' = FALSE /\ prPc' = "sleep" /\ UNCHANGED idx
       ELSE idx' = 1 /\ prPc' = "line" /\ UNCHANGED success
    /\ UNCHANGED <<cfgVars, mainPc, cashVars, prRunning, arduino_connection, job,
                   reports, wire, fetched,
                   rendered>>

\* print_receipt lines 486-489, and the handler of line 525 when
\* _generate_receipt_lines raises
PrRender ==
    /\ prPc = "render"
    /\ IF render_raises(job.receipt)
       THEN success' = FALSE /\ prPc' = "report" /\ UNCHANGED idx
       ELSE idx' = 1 /\ prPc' = "line" /\ UNCHANGED success
    /\ UNCHANGED <<cfgVars, mainPc, cashVars, prRunning, arduino_connection, job, reports, wire, fetched,
                   rendered>>

\* the rendered lines sent last to first
PrSendLine_reversed ==
    /\ prPc = "line"
    /\ LET lens == receipt_line_lengths(job.receipt)
       IN  /\ wire' = send_arduino_command("LINE",
                           PrefixLength + lens[Len(lens) + 1 - idx])
           /\ IF idx < Len(lens)
              THEN idx' = idx + 1 /\ UNCHANGED prPc
              ELSE idx' = 0 /\ prPc' = "end"
    /\ UNCHANGED <<cfgVars, mainPc, cashVars, prRunning, arduino_connection, job,
                   success, reports, fetched,
                   rendered>>

\* print_receipt lines 491-514: one line of the receipt
PrSendLine ==
    /\ prPc = "line"
    /\ LET lens == receipt_line_lengths(job.receipt)
       IN  /\ wire' = send_arduino_command("LINE", PrefixLength + lens[idx])
           /\ IF idx < Len(lens)
              THEN idx' = idx + 1 /\ UNCHANGED prPc
              ELSE idx' = 0 /\ prPc' = "end"
    /\ UNCHANGED <<cfgVars, mainPc, cashVars, prRunning, arduino_connection, job,
                   success, reports, fetched,
                   rendered>>

\* print_receipt lines 517-523
PrSendEnd ==
    /\ prPc = "end"
    /\ wire' = send_arduino_command("END", EndLength)
    /\ success' = TRUE
    /\ prPc' = "report"
    /\ UNCHANGED <<cfgVars, mainPc, cashVars, prRunning, arduino_connection, job,
                   idx, reports, fetched,
                   rendered>>

\* print_receipt lines 525-527: write() or flush() raises on the open port
PrWriteFault ==
    /\ prPc \in {"start_cmd", "line", "end"}
    /\ printer_connected
    /\ success' = FALSE
    /\ idx' = 0
    /\ prPc' = "report"
    /\ UNCHANGED <<cfgVars, mainPc, cashVars, prRunning, arduino_connection, job, reports, wire, fetched,
                   rendered>>

\* run lines 716-719: mark_job_completed or mark_job_failed, one POST that
\* is answered 200 or is not (lines 673-677, 683-687: the result is dropped)
PrReport ==
    /\ prPc = "report"
    /\ \E answered \in BOOLEAN :
           reports' = Append(reports,
                             [jobId |-> job.jobId,
                              kind |-> IF success THEN "completed" ELSE "failed",
                              answered200 |-> answered])
    /\ prPc' = "sleep"
    /\ UNCHANGED <<cfgVars, mainPc, cashVars, prRunning, arduino_connection, job,
                   idx, success, wire, fetched,
                   rendered>>

\* run line 721 (or the sleep of line 725): the locals of the iteration are
\* dead
PrSleep ==
    /\ prPc = "sleep"
    /\ prPc' = "top"
    /\ job' = NoJob
    /\ success' = FALSE
    /\ reports' = <<>>
    /\ wire' = <<>>
    /\ fetched' = "none"
    /\ UNCHANGED <<cfgVars, mainPc, cashVars, prRunning, arduino_connection, idx,
                   rendered>>

\* -------------------------------------------------------------------- main
\* kiosk_peripherals.main lines 760-768: the cash reader's thread starts;
\* arduino_cash_reader.main line 414: read_loop runs in the main thread
MainStartCash ==
    /\ mainPc = "init"
    /\ IF variant = "unified"
       THEN crPc' = "start" /\ UNCHANGED running
       ELSE crPc' = "top" /\ running' = TRUE
    /\ mainPc' = "cash_started"
    /\ UNCHANGED <<cfgVars, sessVars, elapsed, connVars, inBuf, evVars, pollObs,
                   prVars>>

\* kiosk_peripherals.main lines 776-791: the dispatcher is given the object
\* cash_reader.serial_connection holds at this moment, and its thread starts
MainStartPrinter ==
    /\ mainPc = "cash_started"
    /\ variant = "unified"
    /\ enable_printer
    /\ arduino_connection' = IF serial_connection = "None" THEN "None" ELSE "current"
    /\ prPc' = "start"
    /\ mainPc' = "joining"
    /\ UNCHANGED <<cfgVars, cashVars, prRunning, job, idx, success,
                   reports, wire, fetched,
                   rendered>>

\* kiosk_peripherals.main lines 804-810: KeyboardInterrupt, every started
\* module is told to stop
MainShutdown ==
    /\ variant = "unified"
    /\ mainPc \in {"cash_started", "joining"}
    /\ running' = FALSE
    /\ prRunning' = IF mainPc = "joining" THEN FALSE ELSE prRunning
    /\ mainPc' = "shutdown"
    /\ UNCHANGED <<cfgVars, crPc, sessVars, elapsed, connVars, inBuf, evVars,
                   pollObs, prPc, arduino_connection, job, idx, success,
                   reports, wire, fetched,
                   rendered>>

\* arduino_cash_reader.read_loop lines 373-375 and 381: KeyboardInterrupt
\* ends the loop wherever it is, and the locals of the iteration with it
StandaloneInterrupt ==
    /\ variant = "standalone"
    /\ mainPc = "cash_started"
    /\ Disconnect
    /\ crPc' = "stopped"
    /\ mainPc' = "shutdown"
    /\ line' = <<>>
    /\ cash_update' = NoUpdate
    /\ attempt' = 0
    /\ orderAtRead' = NoOrder
    /\ reqs' = <<>>
    /\ cancels' = <<>>
    /\ sendResult' = "None"
    /\ NoPoll
    /\ UNCHANGED <<cfgVars, running, sessVars, elapsed, prVars>>

\* ---------------------------------------------------------- specifications
\* The cash reader on its own: arduino_cash_reader.py, and
\* kiosk_peripherals.py with config["enable_printer"] false.
Init ==
    /\ variant \in {"unified", "standalone"}
    /\ enable_printer = FALSE
    /\ InitState

Next ==
    \/ MainStartCash
    \/ MainShutdown
    \/ StandaloneInterrupt
    \/ CashStart
    \/ CashExit
    \/ CashPoll(PollResponses)
    \/ CashNoPoll
    \/ CashConnected
    \/ CashConnectOk
    \/ CashSettled
    \/ CashConnectFail
    \/ CashInWaiting
    \/ CashSerialFault
    \/ CashReadLine
    \/ CashSend(UpdateOutcomes)
    \/ CashSleep
    \/ DeviceEmit(DeviceLines)
    \/ Tick

Spec == Init /\ [][Next]_vars

\* kiosk_peripherals.py with both modules enabled: the cash reader and the
\* dispatcher on the shared connection.  The remote has one cash order, the
\* device sends bills, and an update is answered 200 or refused.
KioskResponses ==
    { [kind |-> "conn_error", sessions |-> <<>>],
      [kind |-> "ok", sessions |-> <<[orderNumber |-> "A", has |-> "full"]>>] }

KioskLines == { Line_BILL5 }

KioskOutcomes == {"complete", "rejected"}

Receipts ==
    { NullReceipt,
      ReceiptRec(TRUE, TRUE, 1, FALSE, TRUE),
      ReceiptRec(TRUE, FALSE, 1, TRUE, FALSE) }

InitKiosk ==
    /\ variant = "unified"
    /\ enable_printer = TRUE
    /\ InitState

NextKiosk ==
    \/ MainStartCash
    \/ MainStartPrinter
    \/ MainShutdown
    \/ CashStart
    \/ CashExit
    \/ CashPoll(KioskResponses)
    \/ CashNoPoll
    \/ CashConnected
    \/ CashConnectOk
    \/ CashSettled
    \/ CashConnectFail
    \/ CashInWaiting
    \/ CashSerialFault
    \/ CashReadLine
    \/ CashSend(KioskOutcomes)
    \/ CashSleep
    \/ DeviceEmit(KioskLines)
    \/ Tick
    \/ PrStart
    \/ PrExit
    \/ PrWait
    \/ PrConnectionTest
    \/ PrFetchNone
    \/ PrFetchJob(Receipts)
    \/ PrPrintBegin
    \/ PrSendStart
    \/ PrRender
    \/ PrSendLine
    \/ PrSendEnd
    \/ PrWriteFault
    \/ PrReport
    \/ PrSleep

SpecKiosk == InitKiosk /\ [][NextKiosk]_vars

\* The same program under a fair scheduler: a thread that can take a step
\* takes one in the end (both are non-daemon threads of one interpreter, and
\* every blocking call in them has a timeout).  Nothing is assumed of main,
\* whose KeyboardInterrupt comes when the operator sends it, nor of the
\* device and the clock.
CashThread ==
    \/ CashStart
    \/ CashExit
    \/ CashPoll(KioskResponses)
    \/ CashNoPoll
    \/ CashConnected
    \/ CashConnectOk
    \/ CashSettled
    \/ CashConnectFail
    \/ CashInWaiting
    \/ CashSerialFault
    \/ CashReadLine
    \/ CashSend(KioskOutcomes)
    \/ CashSleep

PrinterThread ==
    \/ PrStart
    \/ PrExit
    \/ PrWait
    \/ PrConnectionTest
    \/ PrFetchNone
    \/ PrFetchJob(Receipts)
    \/ PrPrintBegin
    \/ PrSendStart
    \/ PrRender
    \/ PrSendLine
    \/ PrSendEnd
    \/ PrWriteFault
    \/ PrReport
    \/ PrSleep

SpecKioskFair ==
    /\ InitKiosk
    /\ [][NextKiosk]_vars
    /\ WF_vars(CashThread)
    /\ WF_vars(PrinterThread)


\* ------------------------------------------------- the two command senders
\* The functions that write to the port, on the texts they are given:
\* ReceiptPrinterClient._send_arduino_command with the part of
\* print_receipt's loop that calls it, and
\* ArduinoCashReader.send_arduino_command.
OverflowLimit == 63
DeviceBuffer == 64

PRINT_LINE_ == <<"P", "R", "I", "N", "T", ":", "L", "I", "N", "E", ":">>
TEST_ == <<"T", "E", "S", "T", ":">>

\* a text of n characters, each of which tells its place
Text(n) == [i \in 1..n |-> Digits[(i % 10) + 1]]

\* f"PRINT:LINE:{line}"
full_command(text) == PRINT_LINE_ \o text

\* print_receipt lines 500-502: the diagnostic logged before the call
overflow_log(command) ==
    IF Len(command) > OverflowLimit THEN <<"overflow_risk">> ELSE <<>>

\* the last 50 characters kept
command_cut_tail(command) ==
    IF Len(command) > SafeLength
    THEN SubSeq(command, Len(command) - SafeLength + 1, Len(command))
    ELSE command

\* _send_arduino_command lines 534-537: command[:50]
command_cut(command) ==
    IF Len(command) > SafeLength THEN SubSeq(command, 1, SafeLength) ELSE command

\* _send_arduino_command lines 535-536: the two diagnostics of a truncation
truncation_log(command) ==
    IF Len(command) > SafeLength THEN <<"too_long", "truncating">> ELSE <<>>

\* f"{command}\n"
terminated(command) == command \o <<"\n">>

\* the rendered lines the dispatcher is given: empty, a centred line, and
\* item lines whose quantity has 14, 15, 20, 27, 28 digits
PortTexts == { Text(n) : n \in {0, 28, 39, 40, 45, 52, 53} }

\* the commands of the docstring of send_arduino_command, and a TEST: with
\* a long argument
PortCommands ==
    { <<"P", "I", "N", "G">>,
      <<"S", "T", "A", "T", "U", "S">>,
      <<"R", "E", "S", "E", "T">>,
      TEST_ \o <<"B", "I", "L", "L", ":", "1", "0", "0">>,
      TEST_ \o Text(59) }

\* connect_arduino succeeds and the dispatcher is given the object, as main
\* does when both modules are enabled
PortConnect ==
    /\ ~connected
    /\ serial_connection' = "Serial"
    /\ is_open' = TRUE
    /\ arduino_connection' = "current"
    /\ wire' = <<>>
    /\ UNCHANGED <<cfgVars, mainPc, crPc, running, sessVars, elapsed, inBuf,
                   evVars, pollObs, prPc, prRunning, job, idx, success, reports, fetched,
                   rendered>>

\* disconnect_arduino
PortDisconnect ==
    /\ connected
    /\ is_open' = FALSE
    /\ UNCHANGED <<cfgVars, mainPc, crPc, running, sessVars, elapsed,
                   serial_connection, inBuf, evVars, pollObs, prVars>>

\* print_receipt lines 493-504 for one rendered line, with
\* _send_arduino_command lines 531-543
PortPrintLine(Texts) ==
    /\ Len(wire) < MaxWire
    /\ \E text \in Texts :
          LET command == full_command(text)
          IN  wire' = IF printer_connected
                      THEN Append(wire,
                                  [sender |-> "printer",
                                   command |-> command,
                                   written |-> terminated(command_cut(command)),
                                   log |-> overflow_log(command)
                                               \o truncation_log(command)])
                      ELSE wire
    /\ UNCHANGED <<cfgVars, mainPc, cashVars, prPc, prRunning,
                   arduino_connection, job, idx, success, reports, fetched,
                   rendered>>

\* ArduinoCashReader.send_arduino_command lines 230-236
PortDiagnostic(Commands) ==
    /\ Len(wire) < MaxWire
    /\ \E command \in Commands :
          wire' = IF connected
                  THEN Append(wire, [sender |-> "cash",
                                     command |-> command,
                                     written |-> terminated(command),
                                     log |-> <<>>])
                  ELSE wire
    /\ UNCHANGED <<cfgVars, mainPc, cashVars, prPc, prRunning,
                   arduino_connection, job, idx, success, reports, fetched,
                   rendered>>

InitPort ==
    /\ variant = "unified"
    /\ enable_printer = TRUE
    /\ InitState

NextPort ==
    \/ PortConnect
    \/ PortDisconnect
    \/ PortPrintLine(PortTexts)
    \/ PortDiagnostic(PortCommands)

SpecPort == InitPort /\ [][NextPort]_vars

\* ------------------------------------------------------------------ claims
\* the lines BILL:<amt> / COIN:<amt> with amt > 0, and their amounts
CashLines == {Line_BILL5, Line_COIN1}
AmountOf(l) == IF l = Line_BILL5 THEN 5 ELSE IF l = Line_COIN1 THEN 1 ELSE 0

\* the attempt succeeded: status 200 with a body that parses
Answered200(req) == req.outcome \in {"ok", "complete"}

Carries(req, order, amount) == req.orderNumber = order /\ req.amountAdded = amount

\* the cash reader has read a valid cash line while an order was current
ValidCashEvent == line \in CashLines /\ orderAtRead # NoOrder

\* the step of the loop that polls: the only one that sets the clock back
PollStep == crPc = "top" /\ elapsed' < elapsed

Keys(d) == { d[i].orderNumber : i \in 1..Len(d) }
Count(seq, x) == Cardinality({ i \in 1..Len(seq) : seq[i] = x })

\* C1 as stated: once a BILL:/COIN: line with amt > 0, read while an order is
\* current, has been dealt with, exactly one update call has been sent, with
\* amountAdded = amt and orderNumber = the order current at the parse.
C1_ExactlyOneUpdateCall ==
    (crPc = "sleep" /\ ValidCashEvent)
        => /\ Len(reqs) = 1
           /\ Carries(reqs[1], orderAtRead, AmountOf(line))

\* C1 amended: for such a line send_cash_update runs once and sends at least
\* one and at most retry_attempts update calls, every one with amountAdded =
\* amt and orderNumber = the order current at the parse; it is exactly one
\* call when the first succeeds, and a further call is sent only after a
\* failed one.
C1_OneToRetryAttemptsCalls ==
    /\ (crPc \in {"send", "sleep"} /\ ValidCashEvent)
           => \A i \in 1..Len(reqs) : Carries(reqs[i], orderAtRead, AmountOf(line))
    /\ (crPc = "sleep" /\ ValidCashEvent)
           => /\ 1 <= Len(reqs) /\ Len(reqs) <= retry_attempts
              /\ \A i \in 1..(Len(reqs) - 1) : ~Answered200(reqs[i])
              /\ Answered200(reqs[1]) => Len(reqs) = 1
    /\ (crPc = "send" /\ line \in CashLines) => ValidCashEvent

C1_Witness ==
    /\ crPc = "sleep"
    /\ line = Line_COIN1
    /\ orderAtRead = "B"
    /\ Len(reqs) = 3
    /\ reqs[3].outcome = "ok"

\* C2: a BILL:/COIN: line read while no order is current causes no remote
\* call, and nothing of it is kept: no update is ever sent for a line that
\* was read without a current order, and outside the handling of a line the
\* cash reader holds no update to send.
C2_DroppedWithoutOrder ==
    /\ (crPc \in {"send", "sleep"} /\ orderAtRead = NoOrder)
           => reqs = <<>> /\ cancels = <<>> /\ cash_update = NoUpdate
    /\ reqs # <<>> => orderAtRead # NoOrder
    /\ crPc \notin {"send", "sleep"}
           => cash_update = NoUpdate /\ reqs = <<>> /\ line = <<>>

C2_Witness ==
    /\ crPc = "sleep"
    /\ line = Line_BILL5
    /\ orderAtRead = NoOrder
    /\ active_sessions = <<>>

\* C4 as stated: the remote applies no cash event more than once, whatever
\* the update attempts of its send_cash_update run into.
C4_AppliedAtMostOnce ==
    Cardinality({ i \in 1..Len(reqs) : remote_applied(reqs[i].outcome) }) <= 1

\* C5: a successful poll notifies "new session" exactly once for each order
\* in the response and not in the cache, "completed/cancelled" exactly once
\* for each order in the cache and not in the response, and nothing for an
\* order in both.
C5_DiffNotifications ==
    [][ (PollStep /\ pollStatus' = "ok")
            => \A o \in Orders :
                  /\ Count(notes', Note("new", o)) =
                        IF o \in Keys(response'.sessions) \ Keys(active_sessions)
                        THEN 1 ELSE 0
                  /\ Count(notes', Note("gone", o)) =
                        IF o \in Keys(active_sessions) \ Keys(response'.sessions)
                        THEN 1 ELSE 0 ]_vars

\* the cache was {A, B}, the response is {B, C}: A gone, C new, nothing for B
C5_Witness ==
    /\ pollStatus = "ok"
    /\ Keys(response.sessions) = {"B", "C"}
    /\ Count(notes, Note("gone", "A")) = 1
    /\ Count(notes, Note("new", "C")) = 1
    /\ Len(notes) = 2

\* C6: a poll that fails leaves the session cache and the current-order
\* pointer as they were.
C6_FailedPollChangesNothing ==
    [][ (PollStep /\ pollStatus' = "failed")
            => UNCHANGED <<active_sessions, current_order>> ]_vars

\* a poll that failed on a malformed session after a notification, with a
\* cache and a current order to lose
C6_Witness ==
    /\ pollStatus = "failed"
    /\ response.kind = "ok"
    /\ notes # <<>>
    /\ active_sessions # <<>>
    /\ current_order # NoOrder

\* C7: when the first k attempts fail and attempt k+1 succeeds, k+1 update
\* calls have been sent, send_cash_update returns True, and no call follows
\* the successful one.
C7_StopsAtFirstSuccess ==
    /\ \A i \in 1..Len(reqs) :
           Answered200(reqs[i])
               => i = Len(reqs) /\ crPc = "sleep" /\ sendResult = "True"
    /\ crPc = "send" => Len(reqs) = attempt /\ Len(reqs) < retry_attempts
    /\ sendResult = "True" => reqs # <<>> /\ Answered200(reqs[Len(reqs)])

\* two timeouts, then a 200 on the third of three attempts
C7_Witness ==
    /\ crPc = "sleep"
    /\ Len(reqs) = 3
    /\ reqs[1].outcome = "lost"
    /\ reqs[2].outcome = "lost"
    /\ reqs[3].outcome = "ok"
    /\ sendResult = "True"

\* C8: at most retry_attempts update calls are sent for a line; when the
\* last one fails send_cash_update returns False, and the update is not kept
\* for a later iteration.
C8_BoundedRetries ==
    /\ Len(reqs) <= retry_attempts
    /\ (crPc = "sleep" /\ reqs # <<>> /\ ~Answered200(reqs[Len(reqs)]))
           => Len(reqs) = retry_attempts /\ sendResult = "False"
    /\ crPc = "send" => Len(reqs) < retry_attempts
    /\ crPc \notin {"send", "sleep"} => cash_update = NoUpdate /\ reqs = <<>>

C8_Witness ==
    /\ crPc = "sleep"
    /\ Len(reqs) = retry_attempts
    /\ \A i \in 1..Len(reqs) : ~Answered200(reqs[i])
    /\ sendResult = "False"

\* C10 as stated: when CANCEL is read with a current order, one
\* cancel-payment call is issued for it and the pointer is cleared; with no
\* current order nothing is called and nothing changes.
C10_CancelHandled ==
    (crPc = "sleep" /\ line = Line_CANCEL)
        => IF orderAtRead # NoOrder
           THEN cancels = <<orderAtRead>> /\ current_order = NoOrder
           ELSE cancels = <<>> /\ current_order = NoOrder /\ reqs = <<>>

\* the dispatcher is between resetting the buffers and PRINT:END
Transmitting == prPc \in {"start_cmd", "render", "line", "end"}

\* C3: for every job fetched exactly one report call is made, Completed or
\* Failed: none before print_receipt has returned, and exactly one, with the
\* job's id, Completed when print_receipt returned True and Failed otherwise,
\* when the iteration ends.
C3_ExactlyOneReport ==
    /\ prPc \in {"print", "start_cmd", "render", "line", "end", "report"}
           => reports = <<>>
    /\ prPc = "sleep" /\ job # NoJob
           => /\ Len(reports) = 1
              /\ reports[1].jobId = job.jobId
              /\ reports[1].kind = IF success THEN "completed" ELSE "failed"
    /\ prPc = "sleep" /\ job = NoJob
           => reports = <<>>
    /\ prPc \in {"notstarted", "start", "top", "fetch", "stopped"}
           => job = NoJob /\ reports = <<>>

\* a job whose rendering failed after PRINT:START was written
C3_Witness ==
    /\ prPc = "sleep"
    /\ render_raises(job.receipt)
    /\ wire # <<>>
    /\ Len(reports) = 1
    /\ reports[1].jobId = "J2"
    /\ reports[1].kind = "failed"
    /\ ~reports[1].answered200

\* C9 as stated: the cash reader is never inside a read of the connection
\* (between in_waiting and the return of readline) while the dispatcher is
\* transmitting a job.
C9_MutualExclusion == ~(crPc = "readline" /\ Transmitting /\ printer_connected)

\* a cash-reader step that polls: the observers of a poll appear, or, when
\* those of the poll before are still there, the clock is set back
PollHappens ==
    /\ pollStatus' # "none"
    /\ pollStatus = "none" \/ elapsed' < elapsed

PollSucceeds == PollHappens /\ pollStatus' = "ok"

\* C11: an update answered with isComplete clears the current-order pointer
\* at once, and every line read from then on, while nothing has selected an
\* order again, is dropped with no remote call; only a successful poll
\* selects an order.
C11_ClearedOnComplete ==
    /\ clearedBy = "complete" => current_order = NoOrder
    /\ (crPc = "sleep" /\ reqs # <<>> /\ reqs[Len(reqs)].outcome = "complete")
           => current_order = NoOrder /\ clearedBy = "complete"
    /\ (crPc \in {"send", "sleep"} /\ clearedBy = "complete" /\ orderAtRead = NoOrder)
           => reqs = <<>> /\ cash_update = NoUpdate
    /\ current_order # NoOrder => clearedBy = "none"

\* a bill read and dropped after the order was completed, the session still
\* in the cache
C11_Witness ==
    /\ crPc = "sleep"
    /\ clearedBy = "complete"
    /\ orderAtRead = NoOrder
    /\ line = Line_BILL5
    /\ reqs = <<>>
    /\ active_sessions # <<>>

\* C12: when a poll cleared the current order because its session had gone,
\* every line read before an order is selected again is dropped with no
\* remote call; no update is ever sent for an order that is not in the cache.
C12_DroppedAfterDisappearance ==
    /\ clearedBy = "gone" => current_order = NoOrder
    /\ (crPc \in {"send", "sleep"} /\ clearedBy = "gone")
           => orderAtRead = NoOrder /\ reqs = <<>> /\ cash_update = NoUpdate
    /\ reqs # <<>> => HasKey(active_sessions, orderAtRead)

C12_Witness ==
    /\ crPc = "sleep"
    /\ clearedBy = "gone"
    /\ line = Line_BILL5
    /\ orderAtRead = NoOrder
    /\ reqs = <<>>

\* C13: after a successful poll whose response lacks the order that was
\* current before it, the pointer no longer holds that order.
C13_PointerLeavesGoneOrder ==
    [][ (PollSucceeds /\ current_order # NoOrder
                      /\ current_order \notin Keys(response'.sessions))
            => current_order' # current_order ]_vars

\* the poll that took the current order away, nothing left to select
C13_Witness ==
    /\ pollStatus = "ok"
    /\ clearedBy = "gone"
    /\ current_order = NoOrder
    /\ Count(notes, Note("gone", "A")) = 1
    /\ Count(notes, Note("gone", "B")) = 1

\* C14: after a successful poll the pointer is the order it held if the
\* response has it; otherwise the first order number of the response's
\* session list if there is one, and unset if the list is empty.
C14_AutoSelectFirst ==
    [][ PollSucceeds =>
            LET remote == response'.sessions
                kept == IF current_order \in Keys(remote) THEN current_order
                                                          ELSE NoOrder
            IN  /\ current_order' =
                       IF kept # NoOrder THEN kept
                       ELSE IF remote # <<>> THEN remote[1].orderNumber
                       ELSE NoOrder
                /\ (active_sessions' = <<>>) = (remote = <<>>) ]_vars

\* two new sessions, C listed before A: C is selected
C14_Witness ==
    /\ pollStatus = "ok"
    /\ Len(response.sessions) = 2
    /\ response.sessions[1].orderNumber = "C"
    /\ response.sessions[2].orderNumber = "A"
    /\ Len(notes) = 2
    /\ notes[1] = Note("new", "C")
    /\ current_order = "C"

\* C15: a poll starts only when poll_interval has passed since the start of
\* the poll before it, and it sets the clock back whether it succeeds or
\* fails; between polls the loop goes on to the port.
C15_PollRateGated ==
    [][ /\ PollHappens => elapsed >= poll_interval /\ elapsed' < poll_interval
        /\ (crPc = "top" /\ crPc' = "conn" /\ elapsed < poll_interval)
               => pollStatus' = "none" /\ elapsed' = elapsed ]_vars

\* a later poll, a full interval after the one that filled the cache, has
\* failed and has set the clock back
C15_Witness ==
    /\ crPc = "conn"
    /\ pollStatus = "failed"
    /\ elapsed = 0
    /\ active_sessions # <<>>

\* what print_receipt writes for a receipt when nothing stops it
job_commands(r) ==
    LET lens == receipt_line_lengths(r)
    IN  <<Written("START", StartLength)>>
            \o [i \in 1..Len(lens) |-> Written("LINE", PrefixLength + lens[i])]
            \o <<Written("END", EndLength)>>

IsPrefix(s, t) == Len(s) <= Len(t) /\ s = SubSeq(t, 1, Len(s))

\* C16: what the dispatcher has written for a job is at every moment a
\* prefix of: PRINT:START, one PRINT:LINE per rendered line in rendering
\* order, PRINT:END; nothing is written before the buffers are cleared, and
\* the whole sequence has been written when print_receipt returns True with
\* the port still open.
C16_CommandOrder ==
    /\ prPc \in {"top", "fetch", "print", "start_cmd"} => wire = <<>>
    /\ (job.receipt.isDict /\ ~render_raises(job.receipt))
           => IsPrefix(wire, job_commands(job.receipt))
    /\ render_raises(job.receipt) => IsPrefix(wire, <<Written("START", StartLength)>>)
    /\ ~job.receipt.isDict => wire = <<>>
    /\ prPc = "line" => IsPrefix(wire, SubSeq(job_commands(job.receipt), 1, idx))
    /\ (prPc \in {"report", "sleep"} /\ success /\ printer_connected)
           => wire = job_commands(job.receipt)

\* a whole job written: START, more than 27 lines, END
C16_Witness ==
    /\ prPc = "sleep"
    /\ success
    /\ Len(wire) > 29
    /\ wire[1].cmd = "START"
    /\ wire[2].cmd = "LINE"
    /\ wire[Len(wire)].cmd = "END"

\* C17: the dispatcher fetches a job only while it holds none, and lets go
\* of the job it holds only after one report on it has been sent.
C17_OneJobAtATime ==
    [][ /\ (job' # job /\ job' # NoJob) => job = NoJob /\ prPc = "fetch"
        /\ (job # NoJob /\ job' # job)
               => job' = NoJob /\ Len(reports) = 1
                               /\ reports[1].jobId = job.jobId ]_vars

\* a job is held, its last line sent, nothing reported yet
C17_Witness ==
    /\ prPc = "end"
    /\ job.jobId = "J2"
    /\ reports = <<>>
    /\ Len(wire) > 20

Logged(entry, what) == \E k \in 1..Len(entry.log) : entry.log[k] = what

PrinterEntries == { i \in 1..Len(wire) : wire[i].sender = "printer" }

\* C18: a command the dispatcher passes that is longer than 50 characters is
\* written as its first 50 characters and the newline, with the truncation
\* diagnostic logged; a command of 50 characters or fewer is written as it
\* is, with no such diagnostic; no write of the dispatcher is longer than 50
\* characters and the newline.
C18_TruncatedToSafeLength ==
    \A i \in PrinterEntries :
        LET c == wire[i].command
            w == wire[i].written
        IN  /\ Len(w) <= 50 + 1
            /\ w[Len(w)] = "\n"
            /\ Len(c) > 50 =>
                   /\ Len(w) = 51
                   /\ \A k \in 1..50 : w[k] = c[k]
                   /\ Logged(wire[i], "truncating")
            /\ Len(c) <= 50 =>
                   /\ Len(w) = Len(c) + 1
                   /\ \A k \in 1..Len(c) : w[k] = c[k]
                   /\ ~Logged(wire[i], "truncating")

\* a command of 56 characters written as its first 50
C18_Witness ==
    \E i \in PrinterEntries :
        /\ Len(wire[i].command) = 56
        /\ Len(wire[i].written) = 51
        /\ wire[i].written[50] = wire[i].command[50]
        /\ wire[i].written[50] # wire[i].command[56]
        /\ Logged(wire[i], "truncating")

\* C19 as stated: no write by either sender is longer than the device's 64
\* bytes, newline included.
C19_NoWriteOverDeviceBuffer ==
    \A i \in 1..Len(wire) : Len(wire[i].written) <= DeviceBuffer

\* C20 as stated: whenever the dispatcher's command is longer than the safe
\* length, the overflow-risk diagnostic is logged, and before the truncation
\* diagnostic.
C20_OverflowFlaggedBeforeTruncation ==
    \A i \in PrinterEntries :
        Len(wire[i].command) > SafeLength
            => \E k \in 1..Len(wire[i].log) :
                   /\ wire[i].log[k] = "overflow_risk"
                   /\ \A m \in 1..Len(wire[i].log) :
                          wire[i].log[m] = "truncating" => k < m

\* ---------------------------------------------------------------- claims
\* C21: a serial failure while reading leaves the link not connected; the
\* cash reader is at a read, and the dispatcher writes, only on an open
\* link; a closed link is opened by a successful connect attempt and by
\* nothing else; and a failed connect attempt is followed by the reconnect
\* delay before the loop is back at its top.
C21_FaultForcesReconnect ==
    [][ /\ (caught' = "SerialException" => ~connected')
        /\ (crPc' \in {"wait", "readline"} => connected')
        /\ (Len(wire') > Len(wire) => connected)
        /\ (~connected /\ connected' => crPc = "conn" /\ crPc' = "settle")
        /\ (crPc = "conn" /\ crPc' = "top" =>
               /\ ~connected'
               /\ elapsed' = Min(elapsed + reconnect_delay_seconds, poll_interval))
      ]_vars

\* the link fails under the cash reader while the dispatcher is sending a job
C21_Witness ==
    /\ caught = "SerialException"
    /\ ~connected
    /\ Transmitting
    /\ wire # <<>>

\* C22: while the settle delay that follows a successful connect has not
\* elapsed, nothing is written to the connection (the cash reader reads it
\* only after the delay: CashSettled is its one way to the read).
C22_NoWriteWhileSettling ==
    [][crPc = "settle" => Len(wire') <= Len(wire)]_vars

\* C23: neither loop has ended unless the shutdown signal was given; after
\* an exception caught by the cash reader's handlers the loop is back at its
\* top, and after a fetch that failed or a job that failed the dispatcher
\* goes on to its report and its sleep.
C23_LoopsSurviveErrors ==
    /\ (crPc = "stopped" \/ prPc = "stopped" => mainPc = "shutdown")
    /\ (caught # "none" => crPc = "top")
    /\ (fetched \in FetchMisses => prPc = "sleep")
    /\ (fetched = "job" => prPc \in {"print", "start_cmd", "render", "line",
                                     "end", "report", "sleep"})

\* both loops are running after an error in each: the cash reader has caught
\* a serial failure, the dispatcher a fetch that raised
C23_Witness ==
    /\ caught = "SerialException"
    /\ crPc = "top"
    /\ running
    /\ fetched = "bad_body"
    /\ prPc = "sleep"
    /\ prRunning

\* C24: once the shutdown signal was given, both loops end and the port is
\* closed.
C24_ShutdownStopsAll ==
    (mainPc = "shutdown") ~>
        (/\ crPc = "stopped"
         /\ prPc \in {"notstarted", "stopped"}
         /\ ~is_open)

\* ------------------------------------------------------- the parser alone
\* parse_arduino_data of both programs, on every kind of line: the loop is
\* at its readline() with one line waiting, a cache of zero to two sessions
\* and the pointer at none or at one of them.
ParseCaches ==
    { <<>>,
      <<[orderNumber |-> "A", has |-> "full"]>>,
      <<[orderNumber |-> "A", has |-> "full"],
        [orderNumber |-> "B", has |-> "full"]>> }

InitParse ==
    /\ variant \in {"unified", "standalone"}
    /\ enable_printer = FALSE
    /\ mainPc = "cash_started"
    /\ crPc = "readline"
    /\ running = TRUE
    /\ active_sessions \in ParseCaches
    /\ current_order \in {NoOrder} \cup Keys(active_sessions)
    /\ clearedBy = "none"
    /\ clearedOrder = NoOrder
    /\ elapsed = 0
    /\ serial_connection = "Serial"
    /\ is_open = TRUE
    /\ inBuf \in { <<l>> : l \in AllLines }
    /\ line = <<>>
    /\ cash_update = NoUpdate
    /\ attempt = 0
    /\ orderAtRead = NoOrder
    /\ reqs = <<>>
    /\ cancels = <<>>
    /\ sendResult = "None"
    /\ notes = <<>>
    /\ pollStatus = "none"
    /\ response = NoResponse
    /\ caught = "none"
    /\ prPc = "notstarted"
    /\ prRunning = FALSE
    /\ arduino_connection = "None"
    /\ fetched = "none"
    /\ job = NoJob
    /\ idx = 0
    /\ success = FALSE
    /\ reports = <<>>
    /\ wire = <<>>
    /\ rendered = <<>>

NextParse ==
    \/ CashReadLine
    \/ CashSend(UpdateOutcomes)
    \/ CashSleep

SpecParse == InitParse /\ [][NextParse]_vars

\* the lines the parser is to ignore: empty, a comment, READY, PONG, a
\* command it does not know, lower case, a payload that is no number, an
\* amount of zero, a negative amount
IgnoredLines ==
    { Line_empty, Line_comment, Line_READY, Line_PONG, Line_other, Line_lower,
      Line_BILLx, Line_BILL0, Line_COINneg }

\* C25: reading one of the ignored lines gives no CashUpdate, so no update
\* call, and no cancel call; nothing is raised to the loop; the pointer and
\* the cache are what they were.
C25_IgnoredLinesChangeNothing ==
    [][crPc = "readline" /\ inBuf # <<>> /\ Head(inBuf) \in IgnoredLines =>
          /\ crPc' = "sleep"
          /\ cash_update' = NoUpdate
          /\ reqs' = <<>>
          /\ cancels' = <<>>
          /\ caught' = "none"
          /\ current_order' = current_order
          /\ active_sessions' = active_sessions
      ]_vars

\* 'bill:5' was read while an order is current, and the iteration is over
C25_Witness ==
    /\ crPc = "sleep"
    /\ line = Line_lower
    /\ orderAtRead # NoOrder
    /\ current_order = orderAtRead
    /\ reqs = <<>>

\* ------------------------------------------------------------- rendering
\* _generate_receipt_lines on whole payloads, character by character.  A
\* payload is the dict of the job's 'receipt': an optional text field is <<>>
\* when the key is absent and <<text>> when it is present; amounts are in
\* hundredths, so f'{x:.2f}' has nothing to round; quantities are naturals.
MaxRenders == 3

\* dict.get(key, default) on an optional text field
get(field, default) == IF field = <<>> THEN default ELSE field[1]

\* characters outside ASCII that a payload may carry
NonAscii == {"é"}

\* _safe_text: text.encode('ascii', errors='replace').decode('ascii')
safe_text(text) ==
    [i \in 1..Len(text) |-> IF text[i] \in NonAscii THEN "?" ELSE text[i]]

\* ' ' * n
Spaces(n) == [i \in 1..n |-> " "]

\* text[:n]
take(text, n) == SubSeq(text, 1, Min(n, Len(text)))

\* str.ljust(width), str.rjust(width): nothing is cut
ljust(text, width) ==
    IF Len(text) >= width THEN text ELSE text \o Spaces(width - Len(text))

rjust(text, width) ==
    IF Len(text) >= width THEN text ELSE Spaces(width - Len(text)) \o text

\* str(n) of a natural number
RECURSIVE str(_)
str(n) ==
    IF n < 10 THEN <<Digits[n + 1]>>
    ELSE str(n \div 10) \o <<Digits[(n % 10) + 1]>>

\* f'{x:.2f}' of an amount given in hundredths
two_decimals(x) ==
    str(x \div 100) \o <<".", Digits[((x \div 10) % 10) + 1], Digits[(x % 10) + 1]>>

\* _center_text
center_text(text, width) ==
    LET t == strip(text)
        total_padding == width - Len(t)
        left_padding == total_padding \div 2
        right_padding == total_padding - left_padding
    IN  IF Len(t) >= width THEN take(t, width)
        ELSE take(Spaces(left_padding) \o t \o Spaces(right_padding), width)

\* lines 551-561: the header
header_lines(data) ==
    LET name == safe_text(get(data.restaurantName, <<"R", "e", "s", "t", "a", "u", "r", "a", "n", "t">>))
        address == safe_text(get(data.restaurantAddress, <<>>))
        phone == safe_text(get(data.restaurantPhone, <<>>))
    IN  <<center_text(name, 28)>>
        \o If(address # <<>>, center_text(address, 28))
        \o If(phone # <<>>, center_text(phone, 28))
        \o <<<<>>, <<>>>>

\* lines 564-575: the order details
order_lines(data) ==
    LET order_num == take(safe_text(get(data.orderNumber, <<"N", "/", "A">>)), 20)
        order_date == take(safe_text(get(data.orderDate, <<>>)), 25)
        customer == take(safe_text(get(data.customerName, <<>>)), 20)
    IN  <<<<"O", "r", "d", "e", "r", ":", " ">> \o order_num, <<"D", "a", "t", "e", ":", " ">> \o order_date>>
        \o If(get(data.customerName, <<>>) # <<>>, <<"C", "u", "s", "t", ":", " ">> \o customer)
        \o <<<<>>, <<>>>>

\* an item line whose name column is 14 characters wide
item_line_narrow(item) ==
    ljust(take(safe_text(item.productName), 14), 14) \o <<" ">>
        \o rjust(str(item.quantity), 3) \o rjust(two_decimals(item.lineTotal), 8)

\* lines 586-604: the line of one item
item_line(item) ==
    LET item_name == safe_text(item.productName)
        qty_str == rjust(str(item.quantity), 3)
        price_str == rjust(two_decimals(item.lineTotal), 8)
    IN  ljust(IF Len(item_name) > 16 THEN take(item_name, 16) ELSE item_name, 16)
            \o <<" ">> \o qty_str \o price_str

\* lines 578-606: the item table
item_table(data) ==
    <<<<"I", "T", "E", "M", " ", " ", " ", " ", " ", " ", " ", " ", " ", " ", " ", " ", " ", "Q", "T", "Y", " ", " ", "P", "R", "I", "C", "E">>, <<>>>>
        \o [k \in 1..Len(data.items) |-> item_line(data.items[k])]
        \o <<<<>>, <<>>>>

\* lines 609-621: the totals
totals_lines(data) ==
    <<<<"S", "u", "b", "t", "o", "t", "a", "l", ":">> \o rjust(two_decimals(data.subTotal), 18)>>
        \o If(data.tax > 0, <<"V", "A", "T", ":">> \o rjust(two_decimals(data.tax), 23))
        \o <<<<>>, <<"T", "O", "T", "A", "L", ":">> \o rjust(two_decimals(data.totalAmount), 21),
             <<>>, <<>>>>

\* lines 624-637: the payment
payment_lines(data) ==
    LET payment_method == take(safe_text(get(data.paymentMethod, <<"N", "/", "A">>)), 15)
    IN  <<<<"P", "a", "y", ":", " ">> \o payment_method, <<>>>>
        \o If(data.amountPaid # 0,
              <<"P", "a", "i", "d", ":">> \o rjust(two_decimals(data.amountPaid), 22))
        \o If(data.amountPaid # 0 /\ data.change > 0,
              <<"C", "h", "a", "n", "g", "e", ":">> \o rjust(two_decimals(data.change), 20))
        \o <<<<>>, <<>>>>

\* lines 640-646: the footer
footer_lines ==
    <<center_text(<<"T", "H", "A", "N", "K", " ", "Y", "O", "U", "!">>, 28), center_text(<<"P", "l", "e", "a", "s", "e", " ", "c", "o", "m", "e", " ", "a", "g", "a", "i", "n">>, 28),
      <<>>, center_text(<<"H", "a", "v", "e", " ", "a", " ", "g", "r", "e", "a", "t", " ", "d", "a", "y", "!">>, 28), <<>>, <<>>, <<>>>>

\* a renderer whose list of lines is kept from one receipt to the next
generate_receipt_lines_appending(data) ==
    (IF rendered = <<>> THEN <<>> ELSE rendered[Len(rendered)].lines)
        \o header_lines(data) \o order_lines(data) \o item_table(data)
        \o totals_lines(data) \o payment_lines(data) \o footer_lines

\* _generate_receipt_lines
generate_receipt_lines(data) ==
    header_lines(data) \o order_lines(data) \o item_table(data)
        \o totals_lines(data) \o payment_lines(data) \o footer_lines

Item(name, quantity, lineTotal) ==
    [productName |-> name, quantity |-> quantity, lineTotal |-> lineTotal]

\* the payload of the specification's example: one Burger, quantity 2, 8.00
ExamplePayload ==
    [restaurantName |-> <<>>, restaurantAddress |-> <<>>, restaurantPhone |-> <<>>,
     orderNumber |-> <<<<"K", "-", "1">>>>, orderDate |-> <<>>, customerName |-> <<>>,
     items |-> <<Item(<<"B", "u", "r", "g", "e", "r">>, 2, 800)>>,
     subTotal |-> 800, tax |-> 96, totalAmount |-> 896,
     paymentMethod |-> <<<<"c", "a", "s", "h">>>>, amountPaid |-> 1000, change |-> 104]

\* the payloads rendered: the example; one with every optional field, a name
\* outside ASCII, a product name over 16 characters and a four-digit
\* quantity; one without items, tax and payment; one with two items; one
\* whose restaurant name is wider than the paper
RenderPayloads ==
    { ExamplePayload,
      [ExamplePayload EXCEPT
          !.restaurantName = <<<<"C", "a", "f", "é", " ", "U", "n", "o">>>>,
          !.restaurantAddress = <<<<"1", " ", "M", "a", "i", "n", " ", "S", "t">>>>,
          !.restaurantPhone = <<<<"5", "5", "5", "-", "0", "1", "0", "0">>>>,
          !.orderDate = <<<<"2", "0", "2", "5", "-", "0", "1", "-", "3", "1", " ", "1", "2", ":", "0", "0">>>>,
          !.customerName = <<<<"A", "n", "a">>>>,
          !.items = <<Item(<<"D", "o", "u", "b", "l", "e", " ", "C", "h", "e", "e", "s", "e", " ", "B", "u", "r", "g", "e", "r", " ", "X", "L">>, 1000, 12345678)>>],
      [ExamplePayload EXCEPT
          !.items = <<>>, !.subTotal = 0, !.tax = 0, !.totalAmount = 0,
          !.paymentMethod = <<>>, !.amountPaid = 0, !.change = 0],
      [ExamplePayload EXCEPT
          !.items = <<Item(<<"B", "u", "r", "g", "e", "r">>, 2, 800), Item(<<"F", "r", "i", "e", "s">>, 10, 2505)>>,
          !.subTotal = 3305, !.tax = 397, !.totalAmount = 3702,
          !.amountPaid = 3702, !.change = 0],
      [ExamplePayload EXCEPT
          !.restaurantName = <<<<"T", "h", "e", " ", "V", "e", "r", "y", " ", "L", "o", "n", "g", " ", "R", "e", "s", "t", "a", "u", "r", "a", "n", "t", " ", "N", "a", "m", "e", " ", "I", "n", "c", ".">>>>] }

\* print_receipt line 486: one receipt is rendered
RenderReceipt(Payloads) ==
    /\ Len(rendered) < MaxRenders
    /\ \E data \in Payloads :
           rendered' = Append(rendered, [data |-> data,
                                         lines |-> generate_receipt_lines(data)])
    /\ UNCHANGED <<cfgVars, mainPc, cashVars, prPc, prRunning, arduino_connection,
                   fetched, job, idx, success, reports, wire>>

InitRender ==
    /\ variant = "unified"
    /\ enable_printer = TRUE
    /\ InitState

NextRender ==
    \/ PortConnect
    \/ PortDisconnect
    \/ RenderReceipt(RenderPayloads)

SpecRender == InitRender /\ [][NextRender]_vars

ItemLineOf(e, k) ==
    e.lines[Len(header_lines(e.data)) + Len(order_lines(e.data)) + 2 + k]

HasLine(e, l) == \E i \in 1..Len(e.lines) : e.lines[i] = l

IsSuffix(s, t) == Len(s) <= Len(t) /\ s = SubSeq(t, Len(t) - Len(s) + 1, Len(t))

TotalLines(e) == { i \in 1..Len(e.lines) : startswith(e.lines[i], <<"T", "O", "T", "A", "L", ":">>) }

C28_CacheMirrorsLastSuccessfulPoll ==
    [][ /\ (PollSucceeds => Keys(active_sessions') = Keys(response'.sessions))
        /\ (active_sessions' # active_sessions => PollSucceeds)
      ]_vars

\* a successful poll has taken A out of the cache and brought B in, with B
\* twice in the response
C28_Witness ==
    /\ pollStatus = "ok"
    /\ Len(response.sessions) = 2
    /\ Keys(active_sessions) = {"B"}
    /\ Len(active_sessions) = 1
    /\ Count(notes, Note("gone", "A")) = 1
    /\ Count(notes, Note("new", "B")) = 1

\* C29: a step of the cash-event side (the line is read and parsed, with the
\* cancel call of the standalone reader; an update is sent) leaves the cache
\* as it is and leaves the pointer as it is or clears it.
C29_EventsOnlyClearThePointer ==
    [][(crPc = "readline" \/ crPc = "send") =>
          /\ active_sessions' = active_sessions
          /\ (current_order' = current_order \/ current_order' = NoOrder)
      ]_vars

\* an update completed the payment: the pointer is cleared, and the order is
\* still in the cache, with another one the pointer was not moved to
C29_Witness ==
    /\ crPc = "sleep"
    /\ clearedBy = "complete"
    /\ current_order = NoOrder
    /\ orderAtRead = "A"
    /\ Keys(active_sessions) = {"A", "B"}

\* C30: in an iteration whose fetch came back with 204, with 200 and no
\* job, with another status, or failed in transport, the dispatcher has
\* written nothing to the device and has reported neither Completed nor
\* Failed; it holds no job and is at its sleep.
C30_NoJobNoWriteNoReport ==
    fetched \in {"204", "no_job", "status", "transport"} =>
        /\ wire = <<>>
        /\ reports = <<>>
        /\ job = NoJob
        /\ prPc = "sleep"

\* the fetch was answered with an unexpected status while the port is open
\* and the cash reader is in the middle of a payment
C30_Witness ==
    /\ fetched = "status"
    /\ prPc = "sleep"
    /\ printer_connected
    /\ crPc = "send"

\* C31: the current-order pointer is unset or is the order number of a
\* session in the cache.
C31_PointerInCache ==
    current_order = NoOrder \/ HasKey(active_sessions, current_order)

\* the pointer is at B after a poll took A, the order before it, out of the
\* cache
C31_Witness ==
    /\ pollStatus = "ok"
    /\ current_order = "B"
    /\ Keys(active_sessions) = {"B"}
    /\ Count(notes, Note("gone", "A")) = 1
    /\ Count(notes, Note("new", "B")) = 0

\* C32: an order that is current before a successful poll and is in the
\* response is current after it.
C32_SelectionIsSticky ==
    [][(PollSucceeds /\ current_order # NoOrder
            /\ current_order \in Keys(response'.sessions))
          => current_order' = current_order]_vars

\* B stays current through a poll that brought A in before it
C32_Witness ==
    /\ pollStatus = "ok"
    /\ current_order = "B"
    /\ Len(active_sessions) = 2
    /\ active_sessions[1].orderNumber = "A"
    /\ Count(notes, Note("new", "A")) = 1
    /\ Count(notes, Note("new", "B")) = 0

\* C33: an order cleared by CANCEL or by a completed update, and in the
\* cache and in every response since, is not made current again by a poll.
C33_ClearedOrderNotReselected ==
    [][(PollSucceeds /\ (clearedBy = "complete" \/ clearedBy = "cancel")
            /\ HasKey(active_sessions, clearedOrder)
            /\ clearedOrder \in Keys(response'.sessions))
          => current_order' # clearedOrder]_vars

\* C34: a job is reported Completed only when PRINT:START, every line of
\* the receipt and PRINT:END were written to the port.
C34_CompletedMeansWritten ==
    \A i \in 1..Len(reports) :
        reports[i].kind = "completed" => wire = job_commands(job.receipt)

\* C35: at the end of a job for which PRINT:START was written, PRINT:END
\* was written after it.
C35_StartEndBalanced ==
    (prPc = "sleep" /\ wire # <<>> /\ wire[1].cmd = "START")
        => wire[Len(wire)].cmd = "END"

\* C36: while the link stays connected, a line leaves the port's input
\* buffer only by the cash reader's readline(), which returns it.
C36_UnreadLinesAreRead ==
    [][(Len(inBuf') < Len(inBuf) /\ connected')
          => crPc = "readline" /\ line' = Head(inBuf)]_vars

\* C37: while the cash reader holds an open connection, the connection the
\* running dispatcher holds is that one.
C37_DispatcherOnSameConnection ==
    (connected /\ prPc # "notstarted" /\ prPc # "stopped")
        => arduino_connection = "current"

\* C39: the fetch is issued only while the dispatcher's connection is open.
C39_NoFetchWithoutConnection ==
    [][(fetched = "none" /\ fetched' # "none") => printer_connected]_vars

\* C38: with the port not open, an iteration that starts with the poll
\* interval elapsed polls before it goes on to its connect attempt.
C38_PollsWhileDisconnected ==
    [][(crPc = "top" /\ ~connected /\ elapsed >= poll_interval /\ crPc' = "conn")
          => PollHappens]_vars

C38_Witness ==
    /\ crPc = "conn" /\ ~connected /\ pollStatus = "ok"
    /\ current_order # NoOrder
    /\ Count(notes, Note("new", current_order)) = 0

====
